---- MODULE Spec2Model ----
(***************************************************************************)
(* Model of src/metrics/family.rs: Family<S, M>, a map from label sets to  *)
(* metric instances behind Arc<RwLock<HashMap<S, M>>>, with get_or_create, *)
(* read and clone.  Every lock acquisition, the lookup, the insert and the *)
(* drop of each guard is one step of the calling thread.                   *)
(***************************************************************************)
EXTENDS Naturals, Sequences, FiniteSets, Bags

\* ------------------------------------------------------------------ bounds
\* threads of the model; Spec lets Workers act, the scenarios run all of them
NumThreads == 3
\* instances ever constructed
MaxInst == 3
\* cap of a counter in Spec
MaxVal == 1
\* guards a thread may own when it starts a call or a read()
MaxHeld == 1

Threads == 1..NumThreads
Workers == {1, 2}
Keys == {"GET", "PUT"}
RaceKey == "GET"
Handles == {"family", "clone"}
MapObjects == {"m0", "m1"}
Constructors == {"default", "custom"}
Instances == 1..MaxInst
NoInst == 0
NoKey == "none"
NoHandle == "none"
NoThread == 0

VARIABLES
    family,     \* family[f]: the Family value behind handle f, or NoFamily
    metrics,    \* metrics[m][k]: HashMap of map object m, NoInst when k is absent
    readers,    \* readers[m]: shared guards of m's RwLock currently held
    writer,     \* writer[m]: thread holding m's exclusive guard, or NoThread
    poisoned,   \* poisoned[m]: m's RwLock is poisoned
    nextInst,   \* number of metric instances constructed so far
    val,        \* val[i]: value of counter instance i
    pc,         \* pc[t]: position of thread t inside get_or_create
    key,        \* key[t]: sample_set of t's call
    fam,        \* fam[t]: the handle (self) of t's call
    held,       \* held[t]: bag of the guards t owns (returned OwningRefs, read() guards)
    waitq,      \* lock requests in arrival order (used by the fifo policy)
    policy,     \* grant policy of the RwLock: "any" or "fifo"
    returned,   \* history: returned[k] = some get_or_create(k) has returned
    seen,       \* history: seen[t] = returned[key[t]] when t's call started
    phase       \* caller script of t: "free", or "new"/"called"/"incd"/"done"

vars == <<family, metrics, readers, writer, poisoned, nextInst, val, pc, key,
          fam, held, waitq, policy, returned, seen, phase>>

NoFamily == [metrics |-> "none", constructor |-> "none"]

\* ------------------------------------------------------------- pure helpers
\* family.rs:128 / :137, Default::default() of the HashMap: no key present
EmptyMap == [k \in Keys |-> NoInst]

\* M::default / the stored fn() -> M: a fresh metric holds no observation
Construct(c) == 0

\* self.metrics: the map object behind the handle of t's call
MapOf(t) == family[fam[t]].metrics

\* a lookup that keeps answering with the first instance ever stored
GetStale(m, k) == IF metrics[m][k] # NoInst THEN 1 ELSE NoInst

\* metrics.get(sample_set) at :147 and :160
Get(m, k) == metrics[m][k]

Live(f) == family[f] # NoFamily

\* guards thread t owns on map object m
HeldOn(t, m) ==
    LET S == {g \in BagToSet(held[t]) : g.map = m}
    IN  BagCardinality([g \in S |-> held[t][g]])

Guard(m, k, i) == [map |-> m, key |-> k, inst |-> i]

Without(q, t) == SelectSeq(q, LAMBDA u : u # t)

\* The RwLock lets a request through when it is its turn: any time under the
\* unspecified policy, at the head of the queue under the fifo policy.
MyTurn(t) == policy = "fifo" => (waitq # <<>> /\ Head(waitq) = t)

Enqueue(t) == IF policy = "fifo" THEN Append(waitq, t) ELSE waitq

Dequeue(t) == IF policy = "fifo" THEN Without(waitq, t) ELSE waitq

\* a lock that admits one guard at a time, shared or not
CanReadExclusive(m) == writer[m] = NoThread /\ readers[m] = 0 /\ ~poisoned[m]

\* a read that recovers the guard from a PoisonError instead of failing
CanReadIgnoringPoison(m) == writer[m] = NoThread

\* RwLock::read succeeds: no exclusive guard is held, lock not poisoned
CanRead(m) == writer[m] = NoThread /\ ~poisoned[m]

\* a write() that is granted over outstanding shared guards
CanWriteIgnoringReaders(m) == writer[m] = NoThread /\ ~poisoned[m]

\* RwLock::write succeeds: no guard at all is held, lock not poisoned
CanWrite(m) == writer[m] = NoThread /\ readers[m] = 0 /\ ~poisoned[m]

\* calls in flight that may still construct an instance
MayConstruct == {u \in Threads : pc[u] \in {"read1", "lookup1", "write", "insert"}}

\* ------------------------------------------------------------------- Init
\* Family::default() or Family::new_with_constructor(c): one handle, empty map
InitCommon(c) ==
    /\ family = [f \in Handles |->
                   IF f = "family" THEN [metrics |-> "m0", constructor |-> c]
                   ELSE NoFamily]
    /\ metrics = [m \in MapObjects |-> EmptyMap]
    /\ readers = [m \in MapObjects |-> 0]
    /\ writer = [m \in MapObjects |-> NoThread]
    /\ poisoned = [m \in MapObjects |-> FALSE]
    /\ nextInst = 0
    /\ val = [i \in Instances |-> 0]
    /\ pc = [t \in Threads |-> "idle"]
    /\ key = [t \in Threads |-> NoKey]
    /\ fam = [t \in Threads |-> NoHandle]
    /\ held = [t \in Threads |-> EmptyBag]
    /\ waitq = <<>>
    /\ returned = [k \in Keys |-> FALSE]
    /\ seen = [t \in Threads |-> FALSE]

Init ==
    /\ InitCommon("default")
    /\ policy = "any"
    /\ phase = [t \in Threads |-> "free"]

\* ---------------------------------------------------------------- actions
\* What a returning call hands out (:149, :158-162): an OwningRef made of the
\* shared guard it holds and a reference to the instance found under it.
ReturnHandle(t, m, i) ==
    /\ held' = [held EXCEPT ![t] = @ (+) SetToBag({Guard(m, key[t], i)})]
    /\ returned' = [returned EXCEPT ![key[t]] = TRUE]
    /\ pc' = [pc EXCEPT ![t] = "idle"]
    /\ key' = [key EXCEPT ![t] = NoKey]
    /\ fam' = [fam EXCEPT ![t] = NoHandle]
    /\ seen' = [seen EXCEPT ![t] = FALSE]

\* A panic unwinds the thread: every guard it owns is dropped (a shared guard
\* never poisons), and the thread is gone.
Unwind(t, extra) ==
    /\ readers' = [m \in MapObjects |-> readers[m] - HeldOn(t, m) - extra[m]]
    /\ held' = [held EXCEPT ![t] = EmptyBag]
    /\ pc' = [pc EXCEPT ![t] = "faulted"]
    /\ key' = [key EXCEPT ![t] = NoKey]
    /\ fam' = [fam EXCEPT ![t] = NoHandle]
    /\ seen' = [seen EXCEPT ![t] = FALSE]
    /\ waitq' = Without(waitq, t)

NoExtra == [m \in MapObjects |-> 0]

\* get_or_create(&self, sample_set) is entered (:144)
CallEff(t, f, k) ==
    /\ pc[t] = "idle"
    /\ Live(f)
    /\ BagCardinality(held[t]) <= MaxHeld
    /\ \/ Get(family[f].metrics, k) # NoInst
       \/ nextInst + Cardinality(MayConstruct) < MaxInst
    /\ pc' = [pc EXCEPT ![t] = "read1"]
    /\ key' = [key EXCEPT ![t] = k]
    /\ fam' = [fam EXCEPT ![t] = f]
    /\ seen' = [seen EXCEPT ![t] = returned[k]]
    /\ waitq' = Enqueue(t)
    /\ UNCHANGED <<family, metrics, readers, writer, poisoned, nextInst, val,
                   held, policy, returned>>

Call(t, f, k) == CallEff(t, f, k) /\ UNCHANGED phase

\* :145  let read_guard = self.metrics.read().unwrap();
AcquireRead1(t) ==
    /\ pc[t] = "read1"
    /\ MyTurn(t)
    /\ CanRead(MapOf(t))
    /\ readers' = [readers EXCEPT ![MapOf(t)] = @ + 1]
    /\ pc' = [pc EXCEPT ![t] = "lookup1"]
    /\ waitq' = Dequeue(t)
    /\ UNCHANGED <<family, metrics, writer, poisoned, nextInst, val, key, fam,
                   held, policy, returned, seen, phase>>

\* get_or_create without its fast path: the guard is dropped and the call
\* goes on to insert whether or not the key was found
Lookup1NoFastPath(t) ==
    /\ pc[t] = "lookup1"
    /\ readers' = [readers EXCEPT ![MapOf(t)] = @ - 1]
    /\ pc' = [pc EXCEPT ![t] = "write"]
    /\ waitq' = Enqueue(t)
    /\ UNCHANGED <<family, metrics, writer, poisoned, nextInst, val, policy,
                   phase, key, fam, held, returned, seen>>

\* a first lookup whose guard outlives the miss (the OwningRef kept in scope)
Lookup1KeepsGuard(t) ==
    /\ pc[t] = "lookup1"
    /\ LET m == MapOf(t)
           i == Get(m, key[t])
       IN  IF i # NoInst
           THEN /\ ReturnHandle(t, m, i)
                /\ UNCHANGED <<readers, waitq>>
           ELSE /\ pc' = [pc EXCEPT ![t] = "write"]
                /\ waitq' = Enqueue(t)
                /\ UNCHANGED <<readers, key, fam, held, returned, seen>>
    /\ UNCHANGED <<family, metrics, writer, poisoned, nextInst, val, policy, phase>>

\* :146-150  try_map(|metrics| metrics.get(sample_set).ok_or(())): on a hit the
\* OwningRef is returned; on a miss it is consumed and its guard dropped.
Lookup1(t) ==
    /\ pc[t] = "lookup1"
    /\ LET m == MapOf(t)
           i == Get(m, key[t])
       IN  IF i # NoInst
           THEN /\ ReturnHandle(t, m, i)
                /\ UNCHANGED <<readers, waitq>>
           ELSE /\ readers' = [readers EXCEPT ![m] = @ - 1]
                /\ pc' = [pc EXCEPT ![t] = "write"]
                /\ waitq' = Enqueue(t)
                /\ UNCHANGED <<key, fam, held, returned, seen>>
    /\ UNCHANGED <<family, metrics, writer, poisoned, nextInst, val, policy, phase>>

\* :152  let mut write_guard = self.metrics.write().unwrap();
AcquireWrite(t) ==
    /\ pc[t] = "write"
    /\ MyTurn(t)
    /\ CanWrite(MapOf(t))
    /\ writer' = [writer EXCEPT ![MapOf(t)] = t]
    /\ pc' = [pc EXCEPT ![t] = "insert"]
    /\ waitq' = Dequeue(t)
    /\ UNCHANGED <<family, metrics, readers, poisoned, nextInst, val, key, fam,
                   held, policy, returned, seen, phase>>

\* a constructor handing out one shared object instead of a new one
SharedInstance == CHOOSE i \in Instances : \A j \in Instances : i <= j

\* the instance (self.constructor)() returns: a new object
NewInstance == nextInst + 1

\* an insert that rebuilds the map around the new entry
InsertIntoNewMap(t) ==
    /\ pc[t] = "insert"
    /\ nextInst < MaxInst
    /\ metrics' = [metrics EXCEPT ![MapOf(t)] = [EmptyMap EXCEPT ![key[t]] = NewInstance]]
    /\ val' = [val EXCEPT ![NewInstance] = Construct(family[fam[t]].constructor)]
    /\ nextInst' = nextInst + 1
    /\ pc' = [pc EXCEPT ![t] = "dropw"]
    /\ UNCHANGED <<family, readers, writer, poisoned, key, fam, held, waitq,
                   policy, returned, seen, phase>>

\* an insert that keeps the entry it finds (entry().or_insert_with(..))
InsertIfAbsent(t) ==
    /\ pc[t] = "insert"
    /\ nextInst < MaxInst
    /\ LET m == MapOf(t)
           i == NewInstance
       IN  IF Get(m, key[t]) # NoInst
           THEN UNCHANGED <<metrics, val>>
           ELSE /\ metrics' = [metrics EXCEPT ![m][key[t]] = i]
                /\ val' = [val EXCEPT ![i] = Construct(family[fam[t]].constructor)]
    /\ nextInst' = nextInst + 1
    /\ pc' = [pc EXCEPT ![t] = "dropw"]
    /\ UNCHANGED <<family, readers, writer, poisoned, key, fam, held, waitq,
                   policy, returned, seen, phase>>

\* :153  write_guard.insert(sample_set.clone(), (self.constructor)());
\* unconditional; the value insert returns (the replaced instance) is dropped.
Insert(t) ==
    /\ pc[t] = "insert"
    /\ nextInst < MaxInst
    /\ LET m == MapOf(t)
           old == Get(m, key[t])
           i == NewInstance
       IN  /\ metrics' = [metrics EXCEPT ![m][key[t]] = i]
           /\ val' = [j \in Instances |->
                        IF j = i THEN Construct(family[fam[t]].constructor)
                        ELSE IF j = old THEN 0
                        ELSE val[j]]
    /\ nextInst' = nextInst + 1
    /\ pc' = [pc EXCEPT ![t] = "dropw"]
    /\ UNCHANGED <<family, readers, writer, poisoned, key, fam, held, waitq,
                   policy, returned, seen, phase>>

\* :153  the constructor (or sample_set.clone()) panics: the arguments are
\* evaluated before insert runs, so the map is untouched; write_guard is
\* dropped while panicking, which poisons the lock.
ConstructorFault(t) ==
    /\ pc[t] = "insert"
    /\ poisoned' = [poisoned EXCEPT ![MapOf(t)] = TRUE]
    /\ writer' = [writer EXCEPT ![MapOf(t)] = NoThread]
    /\ Unwind(t, NoExtra)
    /\ UNCHANGED <<family, metrics, nextInst, val, policy, returned, phase>>

\* the exclusive guard kept alive to the end of the function
DropWriteKept(t) ==
    /\ pc[t] = "dropw"
    /\ pc' = [pc EXCEPT ![t] = "read2"]
    /\ waitq' = Enqueue(t)
    /\ UNCHANGED <<family, metrics, readers, writer, poisoned, nextInst, val,
                   key, fam, held, policy, returned, seen, phase>>

\* :155  drop(write_guard);
DropWrite(t) ==
    /\ pc[t] = "dropw"
    /\ writer' = [writer EXCEPT ![MapOf(t)] = NoThread]
    /\ pc' = [pc EXCEPT ![t] = "read2"]
    /\ waitq' = Enqueue(t)
    /\ UNCHANGED <<family, metrics, readers, poisoned, nextInst, val, key, fam,
                   held, policy, returned, seen, phase>>

\* :157  let read_guard = self.metrics.read().unwrap();
AcquireRead2(t) ==
    /\ pc[t] = "read2"
    /\ MyTurn(t)
    /\ CanRead(MapOf(t))
    /\ readers' = [readers EXCEPT ![MapOf(t)] = @ + 1]
    /\ pc' = [pc EXCEPT ![t] = "lookup2"]
    /\ waitq' = Dequeue(t)
    /\ UNCHANGED <<family, metrics, writer, poisoned, nextInst, val, key, fam,
                   held, policy, returned, seen, phase>>

\* :158-162  map(|metrics| metrics.get(sample_set).expect(...)): the handle is
\* returned, or expect panics and the guard is dropped by the unwinding.
Lookup2(t) ==
    /\ pc[t] = "lookup2"
    /\ LET m == MapOf(t)
           i == Get(m, key[t])
       IN  IF i # NoInst
           THEN /\ ReturnHandle(t, m, i)
                /\ UNCHANGED <<readers, waitq>>
           ELSE Unwind(t, [n \in MapObjects |-> IF n = m THEN 1 ELSE 0])
    /\ UNCHANGED <<family, metrics, writer, poisoned, nextInst, val, policy, phase>>

\* :145, :152, :157  .unwrap() of a PoisonError: the lock is granted, found
\* poisoned, and the call panics.
LockPanic(t) ==
    /\ pc[t] \in {"read1", "write", "read2"}
    /\ poisoned[MapOf(t)]
    /\ writer[MapOf(t)] = NoThread
    /\ pc[t] = "write" => readers[MapOf(t)] = 0
    /\ Unwind(t, NoExtra)
    /\ UNCHANGED <<family, metrics, writer, poisoned, nextInst, val, policy,
                   returned, phase>>

\* :152  write() while this thread still owns a shared guard of the same lock
\* (a handle or a read() guard it kept): the lock is never granted to it; the
\* standard library either blocks the thread forever (no step) or panics.
WriteReentryPanic(t) ==
    /\ pc[t] = "write"
    /\ HeldOn(t, MapOf(t)) > 0
    /\ Unwind(t, NoExtra)
    /\ UNCHANGED <<family, metrics, writer, poisoned, nextInst, val, policy,
                   returned, phase>>

\* a read() that hands out the map without taking the lock
ReadUnlocked(t, f) ==
    /\ pc[t] = "idle"
    /\ Live(f)
    /\ BagCardinality(held[t]) <= MaxHeld
    /\ held' = [held EXCEPT ![t] =
                  @ (+) SetToBag({Guard(family[f].metrics, NoKey, NoInst)})]
    /\ UNCHANGED <<family, metrics, readers, writer, poisoned, nextInst, val,
                   pc, key, fam, waitq, policy, returned, seen, phase>>

\* :165-167  read(): self.metrics.read().unwrap(), the guard over the whole map
Read(t, f) ==
    /\ pc[t] = "idle"
    /\ Live(f)
    /\ BagCardinality(held[t]) <= MaxHeld
    /\ policy = "fifo" => waitq = <<>>
    /\ CanRead(family[f].metrics)
    /\ readers' = [readers EXCEPT ![family[f].metrics] = @ + 1]
    /\ held' = [held EXCEPT ![t] =
                  @ (+) SetToBag({Guard(family[f].metrics, NoKey, NoInst)})]
    /\ UNCHANGED <<family, metrics, writer, poisoned, nextInst, val, pc, key,
                   fam, waitq, policy, returned, seen, phase>>

\* :166  read() on a poisoned lock: unwrap panics
ReadPanic(t, f) ==
    /\ pc[t] = "idle"
    /\ Live(f)
    /\ poisoned[family[f].metrics]
    /\ writer[family[f].metrics] = NoThread
    /\ Unwind(t, NoExtra)
    /\ UNCHANGED <<family, metrics, writer, poisoned, nextInst, val, policy,
                   returned, phase>>

\* the caller drops guard i (an OwningRef or a read() guard): the shared lock
\* it owns is released
ReleaseEff(t, g) ==
    /\ pc[t] = "idle"
    /\ BagIn(g, held[t])
    /\ readers' = [readers EXCEPT ![g.map] = @ - 1]
    /\ held' = [held EXCEPT ![t] = @ (-) SetToBag({g})]
    /\ UNCHANGED <<family, metrics, writer, poisoned, nextInst, val, pc, key,
                   fam, waitq, policy, returned, seen>>

Release(t, g) == ReleaseEff(t, g) /\ UNCHANGED phase

\* the caller increments the counter behind handle g (:196 .inc()): interior
\* mutation of the instance, under the shared guard only
IncEff(t, g) ==
    /\ pc[t] = "idle"
    /\ BagIn(g, held[t])
    /\ g.inst # NoInst
    /\ val' = [val EXCEPT ![g.inst] = @ + 1]
    /\ UNCHANGED <<family, metrics, readers, writer, poisoned, nextInst, pc,
                   key, fam, held, waitq, policy, returned, seen>>

Inc(t, g) ==
    /\ g.inst # NoInst
    /\ val[g.inst] < MaxVal
    /\ IncEff(t, g)
    /\ UNCHANGED phase

\* a clone that builds its own map instead of sharing the Arc
CloneDeep(f) == [metrics |-> "m1", constructor |-> family[f].constructor]

\* :170-177  impl Clone: the Arc is cloned (same map object), the fn pointer copied
CloneOf(f) == [metrics |-> family[f].metrics, constructor |-> family[f].constructor]

Clone(f, g) ==
    /\ Live(f)
    /\ ~Live(g)
    /\ family' = [family EXCEPT ![g] = CloneOf(f)]
    /\ UNCHANGED <<metrics, readers, writer, poisoned, nextInst, val, pc, key,
                   fam, held, waitq, policy, returned, seen, phase>>

Next ==
    \/ \E t \in Workers, f \in Handles, k \in Keys : Call(t, f, k)
    \/ \E t \in Workers : AcquireRead1(t)
    \/ \E t \in Workers : Lookup1(t)
    \/ \E t \in Workers : AcquireWrite(t)
    \/ \E t \in Workers : Insert(t)
    \/ \E t \in Workers : ConstructorFault(t)
    \/ \E t \in Workers : DropWrite(t)
    \/ \E t \in Workers : AcquireRead2(t)
    \/ \E t \in Workers : Lookup2(t)
    \/ \E t \in Workers : LockPanic(t)
    \/ \E t \in Workers : WriteReentryPanic(t)
    \/ \E t \in Workers, f \in Handles : Read(t, f)
    \/ \E t \in Workers, f \in Handles : ReadPanic(t, f)
    \/ \E t \in Workers : \E g \in BagToSet(held[t]) : Release(t, g)
    \/ \E t \in Workers : \E g \in BagToSet(held[t]) : Inc(t, g)
    \/ \E f \in Handles, g \in Handles : Clone(f, g)

Spec == Init /\ [][Next]_vars

\* ------------------------------------- scenario: overlapping or apart
\* The general program, started either with callers that overlap freely or
\* with callers that keep their get_or_create calls apart in time: a call is
\* entered only when no other call is running.
InitCount ==
    /\ InitCommon("default")
    /\ policy = "any"
    /\ \E p \in {"free", "apart"} : phase = [t \in Threads |-> p]

Apart == \A t \in Threads : phase[t] = "apart"

CountCall(t, f, k) ==
    /\ Apart => \A u \in Threads \ {t} : pc[u] \in {"idle", "faulted"}
    /\ Call(t, f, k)

NextCount ==
    \/ \E t \in Workers, f \in Handles, k \in Keys : CountCall(t, f, k)
    \/ \E t \in Workers : AcquireRead1(t)
    \/ \E t \in Workers : Lookup1(t)
    \/ \E t \in Workers : AcquireWrite(t)
    \/ \E t \in Workers : Insert(t)
    \/ \E t \in Workers : ConstructorFault(t)
    \/ \E t \in Workers : DropWrite(t)
    \/ \E t \in Workers : AcquireRead2(t)
    \/ \E t \in Workers : Lookup2(t)
    \/ \E t \in Workers : LockPanic(t)
    \/ \E t \in Workers : WriteReentryPanic(t)
    \/ \E t \in Workers, f \in Handles : Read(t, f)
    \/ \E t \in Workers, f \in Handles : ReadPanic(t, f)
    \/ \E t \in Workers : \E g \in BagToSet(held[t]) : Release(t, g)
    \/ \E t \in Workers : \E g \in BagToSet(held[t]) : Inc(t, g)
    \/ \E f \in Handles, g \in Handles : Clone(f, g)

SpecCount == InitCount /\ [][NextCount]_vars

\* -------------------------------------------------- scenario: the race
\* NumThreads callers, each: get_or_create(RaceKey), one inc, drop the handle.
InitRace ==
    /\ \E c \in Constructors : InitCommon(c)
    /\ policy = "any"
    /\ phase = [t \in Threads |-> "new"]

RaceCall(t) ==
    /\ phase[t] = "new"
    /\ CallEff(t, "family", RaceKey)
    /\ phase' = [phase EXCEPT ![t] = "called"]

RaceInc(t) ==
    /\ phase[t] = "called"
    /\ \E g \in BagToSet(held[t]) : IncEff(t, g)
    /\ phase' = [phase EXCEPT ![t] = "incd"]

RaceRelease(t) ==
    /\ phase[t] = "incd"
    /\ \E g \in BagToSet(held[t]) : ReleaseEff(t, g)
    /\ phase' = [phase EXCEPT ![t] = "done"]

NextRace ==
    \/ \E t \in Threads : RaceCall(t)
    \/ \E t \in Threads : AcquireRead1(t)
    \/ \E t \in Threads : Lookup1(t)
    \/ \E t \in Threads : AcquireWrite(t)
    \/ \E t \in Threads : Insert(t)
    \/ \E t \in Threads : ConstructorFault(t)
    \/ \E t \in Threads : DropWrite(t)
    \/ \E t \in Threads : AcquireRead2(t)
    \/ \E t \in Threads : Lookup2(t)
    \/ \E t \in Threads : LockPanic(t)
    \/ \E t \in Threads : RaceInc(t)
    \/ \E t \in Threads : RaceRelease(t)

SpecRace == InitRace /\ [][NextRace]_vars

\* ------------------------------------- scenario: disciplined callers, fair lock
\* Every thread calls get_or_create again and again and drops its handle
\* before its next call; the lock grants requests in arrival order; a thread
\* inside a call, or holding a handle, eventually takes its next step.
InitFair ==
    /\ InitCommon("default")
    /\ policy = "fifo"
    /\ phase = [t \in Threads |-> "free"]

FairCall(t, k) ==
    /\ held[t] = EmptyBag
    /\ Call(t, "family", k)

FairRelease(t) == \E g \in BagToSet(held[t]) : Release(t, g)

NextFair ==
    \/ \E t \in Threads, k \in Keys : FairCall(t, k)
    \/ \E t \in Threads : AcquireRead1(t)
    \/ \E t \in Threads : Lookup1(t)
    \/ \E t \in Threads : AcquireWrite(t)
    \/ \E t \in Threads : Insert(t)
    \/ \E t \in Threads : DropWrite(t)
    \/ \E t \in Threads : AcquireRead2(t)
    \/ \E t \in Threads : Lookup2(t)
    \/ \E t \in Threads : FairRelease(t)

\* the step of t that its position inside the call, or its handle, allows
Proceed(t) ==
    \/ AcquireRead1(t)
    \/ Lookup1(t)
    \/ AcquireWrite(t)
    \/ Insert(t)
    \/ DropWrite(t)
    \/ AcquireRead2(t)
    \/ Lookup2(t)
    \/ FairRelease(t)

Fairness == \A t \in Threads : WF_vars(Proceed(t))

SpecFair == InitFair /\ [][NextFair]_vars /\ Fairness

\* ------------------------------------------------------------ vocabulary
Present(m, k) == metrics[m][k] # NoInst

\* t observed a miss for k in its first lookup and has not completed its insert
PendingInsert(t, m, k) ==
    /\ pc[t] \in {"write", "insert"}
    /\ key[t] = k
    /\ MapOf(t) = m

\* k is mapped and no insert for k is outstanding
Converged(m, k) ==
    /\ Present(m, k)
    /\ \A t \in Threads : ~PendingInsert(t, m, k)

\* the handles for key k of map m that thread t owns
HandlesFor(t, m, k) == {g \in BagToSet(held[t]) : g.map = m /\ g.key = k}

SlowPath == {"write", "insert", "dropw", "read2", "lookup2"}

\* --------------------------------------------------------------------- C1
\* C1 as stated: once an insert for k has completed (k is mapped), the value
\* a handle for k reads never falls behind what was readable before: every
\* increment applied so far stays visible through handles obtained later.
C1_AsStated ==
    [][\A m \in MapObjects, k \in Keys :
          Present(m, k) =>
             /\ Present(m, k)'
             /\ val'[metrics'[m][k]] >= val[metrics[m][k]]]_vars

\* C1 (amended): once k is mapped and no call that missed k still has its
\* insert outstanding, that stays so, the value mapped to k never decreases,
\* and every handle for k held from then on reads at least the value that
\* was readable before, so increments stay visible through later handles.
C1_VisibleOnceConverged ==
    [][\A m \in MapObjects, k \in Keys :
          Converged(m, k) =>
             /\ Converged(m, k)'
             /\ val'[metrics'[m][k]] >= val[metrics[m][k]]
             /\ \A t \in Threads : \A g \in HandlesFor(t, m, k)' :
                   val'[g.inst] >= val[metrics[m][k]]]_vars

\* two threads hold a handle for one converged key whose counter was incremented
C1_Witness ==
    \E t \in Threads, u \in Threads, m \in MapObjects, k \in Keys :
        /\ t # u
        /\ Converged(m, k)
        /\ HandlesFor(t, m, k) # {}
        /\ HandlesFor(u, m, k) # {}
        /\ val[metrics[m][k]] >= 1

\* --------------------------------------------------------------------- C2
AllDone == \A t \in Threads : phase[t] = "done"

\* C2: after all NumThreads callers of the race have called get_or_create
\* (RaceKey) once, incremented once and dropped their handle, RaceKey is
\* mapped and the mapped counter reads at least 1 and at most NumThreads.
C2_RaceValueInRange ==
    AllDone =>
        /\ Present(family["family"].metrics, RaceKey)
        /\ val[metrics[family["family"].metrics][RaceKey]] >= 1
        /\ val[metrics[family["family"].metrics][RaceKey]] <= NumThreads

\* all callers finished, and an increment was lost to the race
C2_Witness ==
    /\ AllDone
    /\ nextInst >= 2
    /\ val[metrics[family["family"].metrics][RaceKey]] < NumThreads

\* --------------------------------------------------------------------- C3
\* C3: a get_or_create(k) call that started after some get_or_create(k) had
\* returned (through any handle of the family) never leaves the fast path: it
\* never requests the exclusive lock, never constructs and never inserts.
C3_FastPathAfterReturn ==
    \A t \in Threads : seen[t] => pc[t] \notin SlowPath

\* such a call, holding its first shared guard, about to find the key
C3_Witness ==
    \E t \in Threads :
        /\ seen[t]
        /\ pc[t] = "lookup1"
        /\ Present(MapOf(t), key[t])

\* --------------------------------------------------------------------- C4
DistinctInstances ==
    /\ \A m \in MapObjects, k1 \in Keys, k2 \in Keys :
          (k1 # k2 /\ Present(m, k1) /\ Present(m, k2)) => metrics[m][k1] # metrics[m][k2]
    /\ \A t \in Threads, u \in Threads :
          \A g \in BagToSet(held[t]) : \A h \in BagToSet(held[u]) :
              (g.key # h.key /\ g.inst # NoInst /\ h.inst # NoInst) => g.inst # h.inst

\* the value mapped to k changes only by an increment through a handle for k;
\* an instance entering the map under k reads 0
FrameOfKey ==
    \A m \in MapObjects, k \in Keys :
        /\ (Present(m, k) /\ metrics'[m][k] = metrics[m][k]
               /\ val'[metrics[m][k]] # val[metrics[m][k]])
             => \E t \in Threads : \E g \in HandlesFor(t, m, k) :
                    /\ g.inst = metrics[m][k]
                    /\ pc[t] = "idle"
        /\ (metrics'[m][k] # metrics[m][k]) => val'[metrics'[m][k]] = 0

\* C4: distinct keys never share an instance, neither in the map nor through
\* handles; an increment through a handle for one key leaves the value of
\* every other key unchanged, and a key enters the map reading 0.
C4_DistinctKeysDistinctInstances == []DistinctInstances /\ [][FrameOfKey]_vars

\* GET was incremented, PUT is mapped, held through a handle, and reads 0
C4_Witness ==
    \E m \in MapObjects, t \in Threads :
        /\ Present(m, "GET") /\ Present(m, "PUT")
        /\ val[metrics[m]["GET"]] = 1
        /\ val[metrics[m]["PUT"]] = 0
        /\ HandlesFor(t, m, "PUT") # {}

\* --------------------------------------------------------------------- C5
\* C5: every handle of the family has the same map object and constructor;
\* a key for which get_or_create returned through any handle is mapped as
\* seen through every handle; every held handle refers to the instance that
\* every handle of the family maps its key to; and a call started after such
\* a return, through whichever handle, constructs and inserts nothing.
C5_CloneSharesMap ==
    /\ \A f \in Handles, g \in Handles :
          (Live(f) /\ Live(g)) => family[f] = family[g]
    /\ \A f \in Handles, k \in Keys :
          (Live(f) /\ returned[k]) => Present(family[f].metrics, k)
    /\ \A f \in Handles, t \in Threads : \A g \in BagToSet(held[t]) :
          (Live(f) /\ g.key # NoKey) => metrics[family[f].metrics][g.key] = g.inst
    /\ \A t \in Threads : (seen[t] /\ pc[t] # "idle") => pc[t] \in {"read1", "lookup1"}

\* a call through the clone, started after the key was returned, finds the
\* incremented instance under its first shared guard
C5_Witness ==
    \E t \in Threads :
        /\ fam[t] = "clone"
        /\ seen[t]
        /\ pc[t] = "lookup1"
        /\ Present(MapOf(t), key[t])
        /\ val[metrics[MapOf(t)][key[t]]] = 1

\* --------------------------------------------------------------------- C6
InCall(t) == pc[t] # "idle"

HasHandle(t) == pc[t] = "idle" /\ held[t] # EmptyBag

C7_ConvergeOnOneInstance ==
    /\ [][\A m \in MapObjects, k \in Keys :
             Converged(m, k) => (Converged(m, k)' /\ metrics'[m][k] = metrics[m][k])]_vars
    /\ [](\A m \in MapObjects, k \in Keys, t \in Threads :
             Converged(m, k) => \A g \in HandlesFor(t, m, k) : g.inst = metrics[m][k])

\* k was constructed twice (a race), has converged, and is held by a handle
C7_Witness ==
    \E m \in MapObjects, k \in Keys, t \in Threads :
        /\ Converged(m, k)
        /\ metrics[m][k] = 2
        /\ \A j \in Keys : j # k => ~Present(m, j)
        /\ HandlesFor(t, m, k) # {}

\* --------------------------------------------------------------------- C8
MapEmpty == \A m \in MapObjects, k \in Keys : ~Present(m, k)

\* C8: the map of a new Family is empty; a mapped key stays mapped; a key
\* becomes mapped only in the insert step of a get_or_create call for it.
C8_KeysOnlyGrow ==
    /\ MapEmpty
    /\ [][\A m \in MapObjects, k \in Keys :
             /\ Present(m, k) => Present(m, k)'
             /\ (~Present(m, k) /\ Present(m, k)') =>
                   \E t \in Threads :
                       /\ pc[t] = "insert" /\ pc'[t] = "dropw"
                       /\ key[t] = k /\ MapOf(t) = m]_vars

\* both keys mapped, the first one replaced once since
C8_Witness ==
    \E m \in MapObjects :
        /\ Present(m, "GET") /\ Present(m, "PUT")
        /\ nextInst = 3

Requests(t, m) ==
    /\ pc[t] \in {"read1", "write", "read2"}
    /\ MapOf(t) = m

\* C10: a fault under the exclusive guard leaves the map unchanged and poisons
\* the lock; a poisoned lock stays poisoned, its map is never changed again,
\* no guard of it is ever granted again, and the only step open to a call
\* requesting it, or to a read() on it, is the panic.
C10_PoisonIsFatal ==
    /\ [][\A t \in Threads :
             (pc[t] = "insert" /\ pc'[t] = "faulted") =>
                 (metrics' = metrics /\ poisoned'[MapOf(t)])]_vars
    /\ [][\A m \in MapObjects :
             poisoned[m] =>
                 /\ poisoned'[m]
                 /\ metrics'[m] = metrics[m]
                 /\ readers'[m] = 0 /\ writer'[m] = NoThread
                 /\ \A t \in Threads : held'[t] = EmptyBag]_vars
    /\ [](\A m \in MapObjects, t \in Workers :
             (poisoned[m] /\ Requests(t, m)) =>
                 /\ ENABLED LockPanic(t)
                 /\ ~ENABLED AcquireRead1(t)
                 /\ ~ENABLED AcquireWrite(t)
                 /\ ~ENABLED AcquireRead2(t))
    /\ [](\A f \in Handles, t \in Workers :
             (Live(f) /\ poisoned[family[f].metrics] /\ pc[t] = "idle") =>
                 (ENABLED ReadPanic(t, f) /\ ~ENABLED Read(t, f)))

\* the lock is poisoned, the map kept its entry, and a call made through the
\* clone after the fault has ended in a panic
C10_Witness ==
    \E m \in MapObjects :
        /\ poisoned[m]
        /\ Live("clone")
        /\ \E k \in Keys : Present(m, k)
        /\ \A t \in Workers : pc[t] = "faulted"

\* -------------------------------------------------------------------- C11
\* the instances some handle refers to
HandedOut == {g.inst : g \in UNION {BagToSet(held[t]) : t \in Threads}}

\* the instances some map holds
Mapped == {metrics[m][k] : m \in MapObjects, k \in Keys}

\* every handle refers to the instance its key is mapped to
HandlesAreCurrent ==
    \A t \in Threads : \A g \in BagToSet(held[t]) :
        g.key # NoKey => g.inst = metrics[g.map][g.key]

\* C11: the insert is unconditional. A call holding the exclusive lock after
\* a miss inserts whether or not the key has been inserted meanwhile; its
\* insert maps the key to a fresh instance, different from the one it
\* replaces and from every instance mapped or handed out before, whose value
\* is the constructor's; no handle refers to the replaced instance, so what
\* was added to it shows in no handle obtained afterwards.
C11_LastWriterWins ==
    /\ [](\A t \in Threads : pc[t] = "insert" => ENABLED Insert(t))
    /\ [][\A t \in Threads :
             (pc[t] = "insert" /\ pc'[t] = "dropw") =>
                 LET m == MapOf(t)
                     old == metrics[m][key[t]]
                     new == metrics'[m][key[t]]
                 IN  /\ new # NoInst
                     /\ new # old
                     /\ new \notin Mapped \cup HandedOut
                     /\ val'[new] = Construct(family[fam[t]].constructor)
                     /\ old # NoInst => old \notin Mapped' \cup HandedOut']_vars
    /\ []HandlesAreCurrent

\* a second insert has just replaced the instance of a key a handle had
\* already been returned for, and the other key was never created
C11_Witness ==
    \E t \in Threads :
        /\ pc[t] = "dropw"
        /\ returned[key[t]]
        /\ nextInst = 2
        /\ metrics[MapOf(t)][key[t]] = 2
        /\ \A k \in Keys \ {key[t]} : ~Present(MapOf(t), k)

\* -------------------------------------------------------------------- C12
\* thread t's call returns in this step with a handle for the instance its
\* key is mapped to
ReturnsHandle(t) ==
    /\ pc'[t] = "idle"
    /\ LET g == Guard(MapOf(t), key[t], metrics[MapOf(t)][key[t]])
       IN  /\ g.inst # NoInst
           /\ held'[t] = held[t] (+) SetToBag({g})

\* C12: from its own insert on, the key of a call is present in the map, in
\* particular at the second lookup; the second lookup never ends in the
\* panic of expect, it returns a handle to the instance then mapped.
C12_SecondLookupFinds ==
    /\ [](\A t \in Threads :
             pc[t] \in {"dropw", "read2", "lookup2"} => Present(MapOf(t), key[t]))
    /\ [][\A t \in Threads :
             (pc[t] = "lookup2" /\ pc'[t] # "lookup2") => ReturnsHandle(t)]_vars

\* a call is at its second lookup after another call replaced the instance
\* it had inserted
C12_Witness ==
    \E t \in Threads, u \in Threads :
        /\ t # u
        /\ pc[t] = "lookup2"
        /\ pc[u] = "read2"
        /\ key[t] = key[u]
        /\ MapOf(t) = MapOf(u)
        /\ nextInst = 2

\* -------------------------------------------------------------------- C13
\* thread t holds a handle for another key of its map, and the only guards
\* out on that map are shared guards t itself owns
OnlyOwnGuards(t) ==
    LET m == MapOf(t)
    IN  /\ \E g \in BagToSet(held[t]) :
               g.map = m /\ g.key \in Keys \ {key[t]}
        /\ readers[m] = HeldOn(t, m)
        /\ writer[m] = NoThread
        /\ ~poisoned[m]

\* C13: a call that missed while its thread still holds a handle is not kept
\* waiting by that handle: when the thread's own guards are the only ones
\* out, its request for the exclusive lock can be granted.
C13_OwnHandleDoesNotBlock ==
    \A t \in Workers :
        (pc[t] = "write" /\ OnlyOwnGuards(t)) => ENABLED AcquireWrite(t)

\* -------------------------------------------------------------------- C14
\* shared guards of map m that belong to thread t: the handles and read()
\* guards it keeps, and the guard of its running call between a granted
\* read() and the end of the lookup made under it
GuardsOf(t, m) ==
    HeldOn(t, m) +
    (IF pc[t] \in {"lookup1", "lookup2"} /\ MapOf(t) = m THEN 1 ELSE 0)

SharedOut(m) ==
    LET S == {t \in Threads : GuardsOf(t, m) > 0}
    IN  BagCardinality([t \in S |-> GuardsOf(t, m)])

\* thread t's call owns the exclusive guard of m
OwnsExclusive(t, m) == pc[t] \in {"insert", "dropw"} /\ MapOf(t) = m

\* C14: a call owns at most one guard at a time. The shared locks granted are
\* exactly the kept guards plus one per call that is at a lookup, and the
\* exclusive lock is granted exactly to a call between write() and drop: so a
\* call requesting the exclusive lock has released its first shared lock, a
\* call requesting the second shared lock has released the exclusive lock.
\* A returning call passes its one shared lock to the handle, and dropping
\* the handle releases it.
C14_OneGuardPerCall ==
    /\ [](\A m \in MapObjects : readers[m] = SharedOut(m))
    /\ [](\A m \in MapObjects, t \in Threads :
             writer[m] = t <=> OwnsExclusive(t, m))
    /\ [][\A t \in Threads :
             (pc[t] \in {"lookup1", "lookup2"} /\ pc'[t] = "idle") =>
                 /\ readers' = readers
                 /\ BagCardinality(held'[t]) = BagCardinality(held[t]) + 1]_vars
    /\ [][\A t \in Threads :
             (pc[t] = "idle" /\ pc'[t] = "idle" /\ held'[t] # held[t]
                /\ held'[t] \sqsubseteq held[t]) =>
                 \E g \in BagToSet(held[t]) :
                     /\ held'[t] = held[t] (-) SetToBag({g})
                     /\ readers' = [readers EXCEPT ![g.map] = @ - 1]]_vars

\* a call has inserted and released the exclusive lock, and no guard at all
\* is out on its map while it requests the second shared lock
C14_Witness ==
    \E t \in Threads :
        /\ pc[t] = "read2"
        /\ Present(MapOf(t), key[t])
        /\ readers[MapOf(t)] = 0
        /\ writer[MapOf(t)] = NoThread

\* -------------------------------------------------------------------- C15
\* C15: the exclusive lock is never held together with a shared lock; a map
\* changes only while no handle and no read() guard of it is out; every held
\* handle refers to the instance its key is mapped to at that moment, over
\* every step during which it is held.
C15_WriterExcludesReaders ==
    /\ [](\A m \in MapObjects : writer[m] # NoThread => readers[m] = 0)
    /\ [][\A m \in MapObjects :
             metrics'[m] # metrics[m] =>
                 /\ readers[m] = 0
                 /\ \A t \in Threads : HeldOn(t, m) = 0]_vars
    /\ [][\A t \in Threads : \A g \in BagToSet(held[t]) :
             (g.key # NoKey /\ BagIn(g, held'[t])) =>
                 /\ g.inst = metrics[g.map][g.key]
                 /\ g.inst = metrics'[g.map][g.key]]_vars

\* a handle for a key is held while another call, which missed that key
\* before it was inserted, waits for the exclusive lock to insert it again
C15_Witness ==
    \E t \in Threads, u \in Threads :
        /\ t # u
        /\ pc[t] = "write"
        /\ HandlesFor(u, MapOf(t), key[t]) # {}
        /\ ~ENABLED AcquireWrite(t)

\* -------------------------------------------------------------------- C16
\* nextInst counts the constructor's invocations that produced an instance.
\* thread t's call constructs and inserts in this step
Inserts(t) == pc[t] = "insert" /\ pc'[t] = "dropw"

\* the keys created so far, per map object
PresentKeys == {e \in MapObjects \X Keys : Present(e[1], e[2])}

\* C16: the constructor runs once in the insert step of a call and nowhere
\* else; a call comes to its insert only through a miss at its first lookup
\* and inserts once; there are at least as many constructions as keys
\* present, every mapped instance being a constructed one; with calls that
\* do not overlap there is exactly one construction per key present.
C16_ConstructionsCounted ==
    /\ [][nextInst' # nextInst =>
             /\ nextInst' = nextInst + 1
             /\ \E t \in Threads :
                    Inserts(t) /\ metrics'[MapOf(t)][key[t]] = nextInst']_vars
    /\ [][\A t \in Threads :
             /\ Inserts(t) => nextInst' = nextInst + 1
             /\ (pc'[t] = "write" /\ pc[t] # "write") =>
                    (pc[t] = "lookup1" /\ ~Present(MapOf(t), key[t]))
             /\ (pc'[t] = "insert" /\ pc[t] # "insert") => pc[t] = "write"
             /\ pc[t] = "dropw" => pc'[t] \in {"dropw", "read2"}
             /\ pc[t] \in {"read2", "lookup2"} =>
                    pc'[t] \in {"read2", "lookup2", "idle", "faulted"}]_vars
    /\ [](/\ Cardinality(PresentKeys) <= nextInst
          /\ Mapped \subseteq 0..nextInst)
    /\ [](Apart => nextInst = Cardinality(PresentKeys))

\* callers that keep their calls apart have created both keys with two
\* constructions, and one of them holds two handles for the same key: the
\* second call for that key constructed nothing
C16_Witness ==
    /\ Apart
    /\ nextInst = 2
    /\ \A k \in Keys : Present("m0", k)
    /\ \E t \in Threads : \E g \in BagToSet(held[t]) :
           g.key # NoKey /\ CopiesIn(g, held[t]) = 2

\* -------------------------------------------------------------------- C17
\* the guard read() returns for map object m
ReadGuard(m) == Guard(m, NoKey, NoInst)

\* thread t holds a guard returned by read() on m
Reading(t, m) == BagIn(ReadGuard(m), held[t])

\* C17: the step of read() leaves every map and every instance as it was;
\* over every step during which a guard of read() stays held, the map it
\* exposes is unchanged, keys and instances; and while such a guard is held
\* every key a get_or_create call has returned for is in that map. (The map
\* is a function of the key, so each key is exposed once.)
C17_ReadIsStable ==
    /\ [][\A t \in Threads, m \in MapObjects :
             CopiesIn(ReadGuard(m), held'[t]) > CopiesIn(ReadGuard(m), held[t]) =>
                 /\ metrics' = metrics
                 /\ val' = val
                 /\ nextInst' = nextInst]_vars
    /\ [][\A m \in MapObjects :
             (\E t \in Threads : Reading(t, m) /\ Reading(t, m)') =>
                 metrics'[m] = metrics[m]]_vars
    /\ [](\A t \in Threads, m \in MapObjects, k \in Keys :
             (Reading(t, m) /\ returned[k]) => Present(m, k))

\* a guard of read() is held over a map with one key returned and present,
\* while a call for the other key has missed and waits to insert it
C17_Witness ==
    \E t \in Threads, u \in Threads, k \in Keys :
        /\ t # u
        /\ pc[u] = "write"
        /\ Reading(t, MapOf(u))
        /\ returned[k]
        /\ Present(MapOf(u), k)
        /\ ~Present(MapOf(u), key[u])

====
